---- MODULE Spec2Model ----
(***************************************************************************)
(* A model of the scraping plug-in: data/scraper.py (price parsing, chart  *)
(* detection and normalisation, product card extraction, the scrape        *)
(* orchestrator) and app.py (the POST /scrape handler and its session).    *)
(*                                                                         *)
(* Text is a sequence of one-character tokens.  The four currency symbols  *)
(* of CURRENCY_REGEX are written "TL" (the lira sign), "EU" (the euro      *)
(* sign), "$" and "PD" (the pound sign): each stands for ONE character.    *)
(* Python's None is the string NONE; a raised exception is a record field  *)
(* exc naming the exception class.                                         *)
(***************************************************************************)
EXTENDS Integers, Sequences, FiniteSets, TLC

VARIABLES
    pc,         \* position of the single sequential caller: "call" | "done" | "raised"
    text,       \* parse_price: the argument
    price,      \* parse_price: the returned (amount, currency) pair
    payload,    \* normalise_chart: the argument
    norm,       \* normalise_chart: what the call produced
    scripts,    \* extract_chart_data: the document's script nodes, in document order
    si,         \* extract_chart_data: how many script nodes the loop has visited
    chart_payload,  \* extract_chart_data: the local chart_payload
    chart,      \* extract_chart_data: what the call produced
    nodes,      \* extract_products: the document's element nodes, in document order
    cards,      \* extract_products: products, seen_names and each card's source node
    page,       \* scrape: the parsed document
    outcome,    \* scrape: the ScrapeResult returned or the exception raised
    store,      \* app: the committed rows of the four tables
    session,    \* app: the rows the open session has added and not yet committed
    req,        \* app: the POST /scrape request being handled
    result,     \* app: the ScrapeResult trigger_scrape holds
    log,        \* app: per answered request, its HTTP status, cause and result
    cpage,      \* concurrent calls: each call's parsed document
    curl,       \* concurrent calls: each call's url argument
    cpc,        \* concurrent calls: each call's position inside scrape
    cloc,       \* concurrent calls: each call's local variables
    cout        \* concurrent calls: each call's outcome

priceVars == <<text, price>>
normVars == <<payload, norm>>
chartVars == <<scripts, si, chart_payload, chart>>
prodVars == <<nodes, cards>>
scrapeVars == <<page, outcome>>
appVars == <<store, session, req, result, log>>
concVars == <<cpage, curl, cpc, cloc, cout>>
vars == <<pc, priceVars, normVars, chartVars, prodVars, scrapeVars, appVars, concVars>>

NONE == "None"

(***************************************************************************)
(* Bounds of the model.                                                    *)
(***************************************************************************)
MaxText == 4
MaxPoints == 2
MaxSeries == 2
MaxScripts == 2
MaxNodes == 2
MaxRequests == 2

(***************************************************************************)
(* Generic helpers.                                                        *)
(***************************************************************************)
RECURSIVE SeqsUpTo(_, _)
SeqsUpTo(S, n) ==
    IF n = 0 THEN {<<>>}
    ELSE LET shorter == SeqsUpTo(S, n - 1)
         IN  shorter \cup {Append(s, x) : s \in {t \in shorter : Len(t) = n - 1}, x \in S}

(***************************************************************************)
(* parse_price and CURRENCY_REGEX                                          *)
(***************************************************************************)
CurrencySymbols == {"TL", "EU", "$", "PD"}
CurrencyCodes == {<<"T", "R", "Y">>, <<"U", "S", "D">>, <<"E", "U", "R">>, <<"G", "B", "P">>}
Digits == {"0", "1", "2", "3", "4", "5", "6", "7", "8", "9"}
ValueChars == Digits \cup {".", ","}
Whitespace == {" "}

DigitVal(c) ==
    CASE c = "0" -> 0 [] c = "1" -> 1 [] c = "2" -> 2 [] c = "3" -> 3 [] c = "4" -> 4
      [] c = "5" -> 5 [] c = "6" -> 6 [] c = "7" -> 7 [] c = "8" -> 8 [] c = "9" -> 9

\* The text of a currency token, as match.group("currency") returns it.
JoinCode(code) == code[1] \o code[2] \o code[3]

\* The (?P<currency>...) group tried at position i: <<token, length>>, or
\* <<NONE, 0>> when no alternative matches there.
CurrencyAt(t, i) ==
    IF i > Len(t) THEN <<NONE, 0>>
    ELSE IF t[i] \in CurrencySymbols THEN <<t[i], 1>>
    ELSE IF i + 2 <= Len(t) /\ SubSeq(t, i, i + 2) \in CurrencyCodes
         THEN <<JoinCode(SubSeq(t, i, i + 2)), 3>>
    ELSE <<NONE, 0>>

\* Where (?P<value>[\d.,]+) starts after a currency token ending before j:
\* \s? takes one whitespace character only if a value character follows it.
ValueStart(t, j) ==
    IF j <= Len(t) /\ t[j] \in ValueChars THEN j
    ELSE IF j + 1 <= Len(t) /\ t[j] \in Whitespace /\ t[j + 1] \in ValueChars THEN j + 1
    ELSE 0

\* The greedy [\d.,]+ run starting at s: the index of its last character.
RECURSIVE RunEnd(_, _)
RunEnd(t, s) ==
    IF s + 1 <= Len(t) /\ t[s + 1] \in ValueChars THEN RunEnd(t, s + 1) ELSE s

MatchAt(t, i) ==
    LET cur == CurrencyAt(t, i)
        s   == IF cur[1] = NONE THEN 0 ELSE ValueStart(t, i + cur[2])
    IN  IF s = 0 THEN [found |-> FALSE, currency |-> NONE, value |-> <<>>]
        ELSE [found |-> TRUE, currency |-> cur[1], value |-> SubSeq(t, s, RunEnd(t, s))]

\* CURRENCY_REGEX.search(text): the leftmost match.
RECURSIVE SearchFrom(_, _)
SearchFrom(t, i) ==
    IF i > Len(t) THEN [found |-> FALSE, currency |-> NONE, value |-> <<>>]
    ELSE IF MatchAt(t, i).found THEN MatchAt(t, i)
    ELSE SearchFrom(t, i + 1)

RegexSearch(t) == SearchFrom(t, 1)

\* str.replace(old, new) for single characters; new = "" removes.
RECURSIVE Replace(_, _, _)
Replace(s, old, new) ==
    IF s = <<>> THEN <<>>
    ELSE (IF Head(s) = old THEN (IF new = "" THEN <<>> ELSE <<new>>) ELSE <<Head(s)>>)
         \o Replace(Tail(s), old, new)

\* match.group("value").replace(".", "").replace(",", ".")
NormaliseValueSwapped(v) == Replace(Replace(v, ",", "."), ".", "")
NormaliseValue(v) == Replace(Replace(v, ".", ""), ",", ".")

RECURSIVE DigitsToNat(_)
DigitsToNat(s) ==
    IF s = <<>> THEN 0 ELSE 10 * DigitsToNat(SubSeq(s, 1, Len(s) - 1)) + DigitVal(s[Len(s)])

\* A decimal number mant / 10^exp in lowest decimal form.
RECURSIVE Canon(_, _)
Canon(mant, exp) ==
    IF exp > 0 /\ mant % 10 = 0 THEN Canon(mant \div 10, exp - 1)
    ELSE [mant |-> mant, exp |-> exp]

NoAmount == [mant |-> -1, exp |-> 0]

\* float(s) for a string of digits and '.': ValueError unless it holds at most
\* one '.' and at least one digit.
PyFloat(s) ==
    LET dots == {i \in 1..Len(s) : s[i] = "."}
        ds   == SelectSeq(s, LAMBDA c : c \in Digits)
    IN  IF Cardinality(dots) > 1 \/ ds = <<>> \/ \E i \in 1..Len(s) : s[i] \notin Digits \cup {"."}
        THEN [ok |-> FALSE, val |-> NoAmount]
        ELSE [ok |-> TRUE,
              val |-> Canon(DigitsToNat(ds),
                            IF dots = {} THEN 0 ELSE Len(s) - (CHOOSE i \in dots : TRUE))]

parse_price(t) ==
    LET m == RegexSearch(t)
    IN  IF ~m.found THEN [amount |-> NoAmount, currency |-> NONE]
        ELSE LET f == PyFloat(NormaliseValue(m.value))
             IN  IF f.ok THEN [amount |-> f.val, currency |-> m.currency]
                 ELSE [amount |-> NoAmount, currency |-> m.currency]

PriceAlphabet == {"$", "U", "S", "D", " ", "1", "2", ".", ","}
PriceExamples ==
    { <<"TL", "1", ".", "2", "3", "4", ",", "5", "6">>,
      <<"n", "o", " ", "d", "i", "g", "i", "t", "s">>,
      <<"G", "B", "P", " ", "1", "0", ",", "5", "0">>,
      <<"x", "$", " ", " ", "5", "EU", "7", ",", "0", "0", ",", "1">> }
PriceTexts == SeqsUpTo(PriceAlphabet, MaxText) \cup PriceExamples

NoPrice == [amount |-> NoAmount, currency |-> NONE]

IdlePrice == text = <<>> /\ price = NoPrice

(***************************************************************************)
(* JSON values as normalise_chart and extract_chart_data see them.         *)
(*                                                                         *)
(* A value carries its kind k.  "null" is JSON null / Python None,         *)
(* "other" a truthy value that is no mapping (a non-empty list or string,  *)
(* a non-zero number, true), "emptymap" the mapping {}, "map" a mapping    *)
(* with at least one key.  An optional string is NONE, "" or a text.       *)
(***************************************************************************)
Truthy(s) == s \notin {NONE, ""}

\* Python's `a or b` on optional strings.
PyOr(a, b) == IF Truthy(a) THEN a ELSE b

\* A raw point: a JSON number n, a string that reads as the number n, a
\* string that is no number, or null.
Num(n) == [k |-> "num", n |-> n]
NumStr(n) == [k |-> "numstr", n |-> n]
BadStr == [k |-> "str", n |-> 0]
NullPoint == [k |-> "null", n |-> 0]

\* float(point): ValueError for a non-numeric string, TypeError for None.
FloatOf(p) ==
    CASE p.k = "num" -> [exc |-> NONE, val |-> p.n]
      [] p.k = "numstr" -> [exc |-> NONE, val |-> p.n]
      [] p.k = "str" -> [exc |-> "ValueError", val |-> 0]
      [] OTHER -> [exc |-> "TypeError", val |-> 0]

\* The value dict.get(key) returns for a list-valued key: "none" (key absent,
\* or null), "list" (items), "scalar" (a truthy value that is no list: a
\* non-zero number, true).
NoField == [k |-> "none", items |-> <<>>]
ListField(items) == [k |-> "list", items |-> items]
ScalarField == [k |-> "scalar", items |-> <<>>]
FieldTruthy(f) == f.k = "scalar" \/ (f.k = "list" /\ f.items # <<>>)
FieldOr(a, b) == IF FieldTruthy(a) THEN a ELSE b

\* A series entry: a mapping with the keys normalise_chart reads, or a JSON
\* value that is no mapping (k = "other").
SeriesEntry(label, name, data, values, backgroundColor, color) ==
    [k |-> "map", label |-> label, name |-> name, data |-> data, values |-> values,
     backgroundColor |-> backgroundColor, color |-> color]
OtherEntry ==
    [k |-> "other", label |-> NONE, name |-> NONE, data |-> NoField, values |-> NoField,
     backgroundColor |-> NONE, color |-> NONE]

\* A chart payload.  hasLabels / hasDatasets say whether the key is present
\* (a present key may hold null); labels is payload.get("labels", []).
ChartMap(title, name, hasLabels, labels, hasDatasets, datasets, series) ==
    [k |-> "map", title |-> title, name |-> name, hasLabels |-> hasLabels, labels |-> labels,
     hasDatasets |-> hasDatasets, datasets |-> datasets, series |-> series]
Atom(kind) ==
    [k |-> kind, title |-> NONE, name |-> NONE, hasLabels |-> FALSE, labels |-> <<>>,
     hasDatasets |-> FALSE, datasets |-> NoField, series |-> NoField]
NullValue == Atom("null")
OtherValue == Atom("other")
EmptyMap == Atom("emptymap")

IsDict(v) == v.k \in {"map", "emptymap"}
ValueTruthy(v) == v.k \in {"map", "other"}

(***************************************************************************)
(* normalise_chart                                                         *)
(***************************************************************************)
DEFAULT_LABEL == "Veri Seti"

\* [float(point) for point in data_points] inside the try: the list of
\* numbers, or the exception (iterating a scalar is a TypeError).
RECURSIVE CoerceAll(_)
CoerceAll(pts) ==
    IF pts = <<>> THEN [exc |-> NONE, vals |-> <<>>]
    ELSE LET f == FloatOf(Head(pts))
         IN  IF f.exc # NONE THEN [exc |-> f.exc, vals |-> <<>>]
             ELSE LET rest == CoerceAll(Tail(pts))
                  IN  IF rest.exc # NONE THEN rest
                      ELSE [exc |-> NONE, vals |-> <<f.val>> \o rest.vals]

NumericPoints(field) ==
    IF field.k = "scalar" THEN [exc |-> "TypeError", vals |-> <<>>]
    ELSE CoerceAll(field.items)

\* The body of the loop for one mapping entry: the dataset appended, or
\* nothing when the except clause continues.
DatasetOf(entry, labels) ==
    LET dataset_label == PyOr(PyOr(entry.label, entry.name), DEFAULT_LABEL)
        data_points   == FieldOr(FieldOr(entry.data, entry.values), ListField(<<>>))
        color         == PyOr(entry.backgroundColor, entry.color)
        numeric       == NumericPoints(data_points)
    IN  IF numeric.exc \in {"TypeError", "ValueError"} THEN <<>>
        ELSE << [label |-> dataset_label, values |-> numeric.vals,
                 labels |-> labels, color |-> color] >>

\* for dataset in raw_datasets: dataset.get on a value that is no mapping
\* raises AttributeError out of normalise_chart.
RECURSIVE NormaliseLoop(_, _, _)
NormaliseLoop(entries, labels, datasets) ==
    IF entries = <<>> THEN [exc |-> NONE, datasets |-> datasets]
    ELSE IF Head(entries).k # "map" THEN [exc |-> "AttributeError", datasets |-> <<>>]
    ELSE NormaliseLoop(Tail(entries), labels, datasets \o DatasetOf(Head(entries), labels))

NoNorm == [exc |-> NONE, title |-> NONE, datasets |-> <<>>]

normalise_chart(p) ==
    IF ~IsDict(p) THEN [exc |-> "AttributeError", title |-> NONE, datasets |-> <<>>]
    ELSE LET chart_title  == PyOr(p.title, p.name)
             raw_datasets == FieldOr(FieldOr(p.datasets, p.series), ListField(<<>>))
         IN  IF raw_datasets.k = "scalar"
             THEN [exc |-> "TypeError", title |-> NONE, datasets |-> <<>>]
             ELSE LET r == NormaliseLoop(raw_datasets.items, p.labels, <<>>)
                  IN  [exc |-> r.exc,
                       title |-> IF r.exc = NONE THEN chart_title ELSE NONE,
                       datasets |-> r.datasets]

IdleNorm == payload = NullValue /\ norm = NoNorm

(***************************************************************************)
(* try_parse_json and extract_chart_data                                   *)
(*                                                                         *)
(* A script node is [type, body].  type is the type attribute ("" when     *)
(* absent).  body.k is "empty" (no text), "blank" (whitespace only),       *)
(* "invalid" (text json.loads rejects) or "json"; body.v is then the       *)
(* parsed value [k, chart, data, self]: k as for values; chart and data    *)
(* are the keys "chart" and "data" ([has, v]); self holds the mapping's    *)
(* own title / name / labels / datasets / series keys.                     *)
(***************************************************************************)
Absent == [has |-> FALSE, v |-> NullValue]
Present(v) == [has |-> TRUE, v |-> v]

ParsedMap(c, d, self) == [k |-> "map", chart |-> c, data |-> d, self |-> self]
ParsedAtom(kind) == [k |-> kind, chart |-> Absent, data |-> Absent, self |-> NullValue]

Script(type, kind, v) == [type |-> type, body |-> [k |-> kind, v |-> v]]

\* str.lower() on the type attributes the model uses.
Lower(s) ==
    CASE s = "Application/LD+JSON" -> "application/ld+json"
      [] s = "APPLICATION/JSON" -> "application/json"
      [] OTHER -> s

ALLOWED_TYPES == {"application/json", "application/ld+json"}

\* try_parse_json(script_payload): the parsed value, or null for text that is
\* blank after strip() or that json.loads rejects.
try_parse_json(body) == IF body.k = "json" THEN body.v ELSE ParsedAtom("null")

HasLabelsAndDatasets(v) == v.hasLabels /\ v.hasDatasets

\* Lines 125-134: the chart payload picked from a parsed value (null: none).
ChartPayload(parsed) ==
    IF parsed.k # "map" THEN NullValue
    ELSE IF parsed.chart.has THEN parsed.chart.v
    ELSE IF parsed.data.has /\ IsDict(parsed.data.v)
         THEN (IF HasLabelsAndDatasets(parsed.data.v) THEN parsed.data.v ELSE NullValue)
    ELSE IF HasLabelsAndDatasets(parsed.self) THEN parsed.self
    ELSE NullValue

\* json.dumps(chart_payload, ensure_ascii=False): the payload's JSON text.
JsonDumps(v) == <<"json", v>>
NoRaw == <<"None", NullValue>>

NoChart == [exc |-> NONE, title |-> NONE, datasets |-> <<>>, raw |-> NoRaw]

\* Whether the loop body reaches line 125 for this node.
ReachesShapeTest(script) ==
    LET script_type == Lower(script.type)
    IN  /\ ~(script_type # "" /\ script_type \notin ALLOWED_TYPES)
        /\ script.body.k # "empty"
        /\ try_parse_json(script.body).k \in {"map", "other"}

\* One iteration of the loop over soup.find_all("script"): kind is "skip"
\* (continue, or fall off the end of the body), "return" or "raise".
ScanNode(script) ==
    IF ~ReachesShapeTest(script)
    THEN [kind |-> "skip", assigned |-> FALSE, chart_payload |-> NullValue, chart |-> NoChart]
    ELSE LET cp == ChartPayload(try_parse_json(script.body))
         IN  IF ~ValueTruthy(cp)
             THEN [kind |-> "skip", assigned |-> TRUE, chart_payload |-> cp, chart |-> NoChart]
             ELSE LET n == normalise_chart(cp)
                  IN  IF n.exc # NONE
                      THEN [kind |-> "raise", assigned |-> TRUE, chart_payload |-> cp,
                            chart |-> [exc |-> n.exc, title |-> NONE, datasets |-> <<>>,
                                       raw |-> NoRaw]]
                      ELSE IF n.datasets # <<>>
                      THEN [kind |-> "return", assigned |-> TRUE, chart_payload |-> cp,
                            chart |-> [exc |-> NONE, title |-> n.title,
                                       datasets |-> n.datasets, raw |-> JsonDumps(cp)]]
                      ELSE [kind |-> "skip", assigned |-> TRUE, chart_payload |-> cp,
                            chart |-> NoChart]

\* extract_chart_data(soup) as one call, over the script nodes in document order.
RECURSIVE extract_chart_data(_)
extract_chart_data(ss) ==
    IF ss = <<>> THEN NoChart
    ELSE LET r == ScanNode(Head(ss))
         IN  IF r.kind = "skip" THEN extract_chart_data(Tail(ss)) ELSE r.chart

IdleChart == scripts = <<>> /\ si = 0 /\ chart_payload = NullValue /\ chart = NoChart

\* The loop of extract_chart_data, one node per step.
ScanScript ==
    /\ pc = "call"
    /\ si < Len(scripts)
    /\ LET r == ScanNode(scripts[si + 1])
       IN  /\ si' = si + 1
           /\ chart_payload' = IF r.assigned THEN r.chart_payload ELSE chart_payload
           /\ chart' = r.chart
           /\ pc' = CASE r.kind = "return" -> "done"
                      [] r.kind = "raise" -> "raised"
                      [] OTHER -> "call"
    /\ UNCHANGED scripts

\* Line 141: the loop ran out of nodes.
ReturnNoChart ==
    /\ pc = "call"
    /\ si = Len(scripts)
    /\ chart' = NoChart
    /\ pc' = "done"
    /\ UNCHANGED <<scripts, si, chart_payload>>

(***************************************************************************)
(* extract_products                                                        *)
(*                                                                         *)
(* The document's element nodes in document order.  A node records which   *)
(* of the four selectors it matches (sel, possibly none), its data-name    *)
(* attribute, the text of its first [itemprop='name'] or heading element   *)
(* (nameEl: [has, v]), its data-price / data-amount attributes and price   *)
(* element text (token sequences, <<>> when absent or empty), the text of  *)
(* its description element and the src of its first img.                   *)
(***************************************************************************)
product_selectors == <<"[data-product]", ".product-card", "article.product", "li.product">>
SelectorSet == {product_selectors[i] : i \in 1..Len(product_selectors)}

Node(sel, dataName, nameEl, dataPrice, dataAmount, priceEl, desc, img) ==
    [sel |-> sel, dataName |-> dataName, nameEl |-> nameEl, dataPrice |-> dataPrice,
     dataAmount |-> dataAmount, priceEl |-> priceEl, desc |-> desc, img |-> img]

\* get_text(strip=True) on the element texts the model uses.
Strip(s) ==
    CASE s = " a " -> "a"
      [] s = " " -> ""
      [] OTHER -> s

\* The indices, in document order from i on, of the nodes matching a selector of S.
RECURSIVE MatchingFrom(_, _, _)
MatchingFrom(ns, i, S) ==
    IF i > Len(ns) THEN <<>>
    ELSE (IF ns[i].sel \cap S # {} THEN <<i>> ELSE <<>>) \o MatchingFrom(ns, i + 1, S)

RECURSIVE SelectorPasses(_, _, _)
SelectorPasses(ns, s, picked) ==
    IF s > Len(product_selectors) THEN picked
    ELSE LET hit == MatchingFrom(ns, 1, {product_selectors[s]})
             new == SelectSeq(hit, LAMBDA i : \A j \in 1..Len(picked) : picked[j] # i)
         IN  SelectorPasses(ns, s + 1, picked \o new)

\* One pass per selector, in selector order, each node once.
SelectBySelectorOrder(ns) == SelectorPasses(ns, 1, <<>>)

\* soup.select("[data-product], .product-card, article.product, li.product"):
\* one walk of the tree, yielding each element that matches any selector of
\* the list; the result is the indices of the matching nodes.
Select(ns) == MatchingFrom(ns, 1, SelectorSet)

\* Lines 150-157: the resolved product name.
ProductName(node) ==
    IF Truthy(node.dataName) THEN node.dataName
    ELSE IF node.nameEl.has THEN Strip(node.nameEl.v)
    ELSE NONE

\* Lines 162-166: the price text handed to parse_price (<<>>: none).
PriceCandidate(node) ==
    IF node.dataPrice # <<>> THEN node.dataPrice
    ELSE IF node.dataAmount # <<>> THEN node.dataAmount
    ELSE node.priceEl

\* Lines 162-182: the card built for a candidate that is not dropped.
CardOf(node) ==
    LET price_candidate == PriceCandidate(node)
        parsed == IF price_candidate # <<>> THEN parse_price(price_candidate) ELSE NoPrice
    IN  [name |-> ProductName(node), price |-> parsed.amount, currency |-> parsed.currency,
         description |-> node.desc, image_url |-> node.img]

NoAcc == [products |-> <<>>, seen_names |-> {}, from |-> <<>>]

\* One iteration of the loop over the candidates: acc holds products and
\* seen_names; from lists, for each card, the index of the node it came from.
ProductStepDedupAll(acc, ns, i) ==
    LET product_name == ProductName(ns[i])
    IN  IF product_name \in acc.seen_names THEN acc
        ELSE [products |-> Append(acc.products, CardOf(ns[i])),
              seen_names |-> acc.seen_names \cup {product_name},
              from |-> Append(acc.from, i)]

ProductStep(acc, ns, i) ==
    LET product_name == ProductName(ns[i])
    IN  IF Truthy(product_name) /\ product_name \in acc.seen_names THEN acc
        ELSE [products |-> Append(acc.products, CardOf(ns[i])),
              seen_names |-> IF Truthy(product_name)
                             THEN acc.seen_names \cup {product_name}
                             ELSE acc.seen_names,
              from |-> Append(acc.from, i)]

RECURSIVE ProductLoop(_, _, _)
ProductLoop(acc, ns, cands) ==
    IF cands = <<>> THEN acc
    ELSE ProductLoop(ProductStep(acc, ns, Head(cands)), ns, Tail(cands))

extract_products(ns) == ProductLoop(NoAcc, ns, Select(ns))

IdleProducts == nodes = <<>> /\ cards = NoAcc

(***************************************************************************)
(* extract_images and scrape                                               *)
(*                                                                         *)
(* A page is the parsed document: its title element text, script nodes,    *)
(* element nodes and img elements ([src, alt, parentProduct]).           *)
(***************************************************************************)
RECURSIVE extract_images(_)
extract_images(imgs) ==
    IF imgs = <<>> THEN <<>>
    ELSE (IF Truthy(Head(imgs).src)
          THEN << <<Head(imgs).src, Head(imgs).alt,
                    IF Head(imgs).parentProduct THEN "product" ELSE NONE>> >>
          ELSE <<>>) \o extract_images(Tail(imgs))

Page(title, ss, ns, imgs) == [title |-> title, scripts |-> ss, nodes |-> ns, imgs |-> imgs]
EmptyPage == Page(NONE, <<>>, <<>>, <<>>)

NoResult ==
    [url |-> "", title |-> NONE, chart_title |-> NONE, datasets |-> <<>>, products |-> <<>>,
     images |-> <<>>, raw_payload |-> NoRaw]
NoOutcome == [kind |-> "pending", exc |-> NONE, result |-> NoResult]
Raised(exc) == [kind |-> "raised", exc |-> exc, result |-> NoResult]

\* Lines 205-223, on the parsed document: a ScrapeResult, or the exception
\* that leaves scrape.
scrape_page(url, pg) ==
    LET c == extract_chart_data(pg.scripts)
    IN  IF c.exc # NONE THEN Raised(c.exc)
        ELSE LET products == extract_products(pg.nodes).products
                 images   == extract_images(pg.imgs)
             IN  IF c.datasets = <<>> /\ products = <<>> THEN Raised("ScraperError")
                 ELSE [kind |-> "returned", exc |-> NONE,
                       result |-> [url |-> url, title |-> pg.title, chart_title |-> c.title,
                                   datasets |-> c.datasets, products |-> products,
                                   images |-> images, raw_payload |-> c.raw]]

IdleScrape == page = EmptyPage /\ outcome = NoOutcome

(***************************************************************************)
(* The inputs the calls are checked on.                                    *)
(***************************************************************************)
\* Raw points and series entries for normalise_chart.
NormPoints == {Num(1), NumStr(2), BadStr, NullPoint}
PointFields ==
    {NoField, ScalarField} \cup {ListField(l) : l \in SeqsUpTo(NormPoints, MaxPoints)}
NormEntries ==
    {OtherEntry}
    \cup {SeriesEntry("S1", NONE, d, NoField, NONE, NONE) : d \in PointFields}
    \cup {SeriesEntry(NONE, "n1", NoField, ListField(<<Num(1), Num(2)>>), NONE, "red"),
          SeriesEntry("", NONE, ListField(<<>>), ListField(<<NumStr(2)>>), "blue", "red"),
          SeriesEntry(NONE, NONE, ListField(<<Num(1)>>), ListField(<<BadStr>>), NONE, NONE)}
SeriesLists == SeqsUpTo(NormEntries, MaxSeries)
NormPayloads ==
    {ChartMap("T", NONE, TRUE, <<"a", "b">>, TRUE, ListField(l), NoField) : l \in SeriesLists}
    \cup {ChartMap(NONE, "N", FALSE, <<>>, FALSE, NoField, ListField(l)) : l \in SeriesLists}
    \cup {ChartMap("", "", TRUE, <<"a">>, TRUE, ListField(<<>>), ListField(l)) : l \in SeriesLists}
    \cup {ChartMap("T", NONE, TRUE, <<"a">>, TRUE, ScalarField, NoField), EmptyMap}

\* Chart payloads, parsed values and script nodes for extract_chart_data.
GoodEntry(label, pts) == SeriesEntry(label, NONE, ListField(pts), NoField, NONE, NONE)
ChartA == ChartMap("TA", NONE, TRUE, <<"a", "b">>, TRUE,
                   ListField(<<GoodEntry("S1", <<Num(1), Num(2)>>)>>), NoField)
ChartB == ChartMap(NONE, "NB", TRUE, <<"c">>, TRUE,
                   ListField(<<GoodEntry("S2", <<NumStr(2)>>)>>), NoField)
ChartC == ChartMap("TC", NONE, TRUE, <<>>, TRUE,
                   ListField(<<GoodEntry("S3", <<Num(1)>>)>>), NoField)
\* A mapping with neither "labels" nor "datasets", charted through "series".
ChartSeriesOnly == ChartMap("TS", NONE, FALSE, <<>>, FALSE, NoField,
                            ListField(<<GoodEntry("S4", <<Num(2)>>)>>))
\* Normalises to no dataset: its only series has a non-numeric point.
ChartNoData == ChartMap("TZ", NONE, TRUE, <<"a">>, TRUE,
                        ListField(<<GoodEntry("S5", <<Num(1), BadStr>>)>>), NoField)
\* A series entry that is no mapping, e.g. {"labels": [], "datasets": [5]}.
ChartBadEntry == ChartMap("TX", NONE, TRUE, <<>>, TRUE, ListField(<<OtherEntry>>), NoField)
\* A mapping with other keys only.
PlainMap == ChartMap(NONE, NONE, FALSE, <<>>, FALSE, NoField, NoField)

ChartKeyValues == {ChartA, ChartSeriesOnly, ChartNoData, OtherValue, EmptyMap}
DataKeyValues == {ChartB, PlainMap, EmptyMap, OtherValue}
SelfValues == {ChartC, PlainMap, ChartBadEntry}

ParsedValues ==
    {ParsedAtom("null"), ParsedAtom("other")}
    \cup {ParsedMap(c, d, s) :
            c \in {Absent} \cup {Present(v) : v \in ChartKeyValues},
            d \in {Absent} \cup {Present(v) : v \in DataKeyValues},
            s \in SelfValues}
ScriptNodes ==
    {Script("", "json", v) : v \in ParsedValues}
    \cup {Script(t, "json", ParsedMap(Absent, Absent, ChartC)) :
            t \in {"application/json", "Application/LD+JSON", "text/javascript"}}
    \cup {Script("", k, ParsedAtom("null")) : k \in {"empty", "blank", "invalid"}}
ScriptLists == SeqsUpTo(ScriptNodes, MaxScripts)

\* Element nodes for extract_products.
NoEl == [has |-> FALSE, v |-> ""]
El(txt) == [has |-> TRUE, v |-> txt]
SelChoices == {{}, {"[data-product]"}, {"li.product"}, {".product-card", "[data-product]"}}
NameChoices == {<<"a", NoEl>>, <<NONE, El(" a ")>>, <<"", El("b")>>, <<NONE, NoEl>>,
                <<NONE, El(" ")>>}
PriceChoices == {<< <<"$", "1">>, <<>>, <<"EU", "9">>, "d1", "i1">>,
                 << <<>>, <<>>, <<"T", "R", "Y", " ", "2", ",", "5">>, NONE, NONE >>}
ElementNodes ==
    {Node(s, n[1], n[2], p[1], p[2], p[3], p[4], p[5]) :
        s \in SelChoices, n \in NameChoices, p \in PriceChoices}
NodeLists == SeqsUpTo(ElementNodes, MaxNodes)

\* Pages for scrape.
Img(src, alt, parentProduct) == [src |-> src, alt |-> alt, parentProduct |-> parentProduct]
PageScripts ==
    {Script("", "json", ParsedMap(Absent, Absent, ChartC)),
     Script("", "json", ParsedMap(Present(ChartNoData), Absent, PlainMap)),
     Script("", "json", ParsedMap(Present(OtherValue), Absent, PlainMap)),
     Script("", "json", ParsedMap(Absent, Absent, ChartBadEntry)),
     Script("text/javascript", "json", ParsedMap(Absent, Absent, ChartC)),
     Script("", "invalid", ParsedAtom("null"))}
PageNodes ==
    {Node(s, n, NoEl, <<"$", "1">>, <<>>, <<>>, NONE, NONE) :
        s \in {{}, {"[data-product]"}}, n \in {"a", NONE}}
PageImages == {<<>>, <<Img("i1", "alt", TRUE), Img(NONE, "x", FALSE)>>}
Pages ==
    {Page(t, ss, ns, im) :
        t \in {NONE, "Title"}, ss \in SeqsUpTo(PageScripts, MaxScripts),
        ns \in SeqsUpTo(PageNodes, MaxNodes), im \in PageImages}

(***************************************************************************)
(* app.py: POST /scrape (trigger_scrape) and get_session                   *)
(*                                                                         *)
(* store holds the committed rows of scrape_jobs, products, chart_datasets *)
(* and scraped_images; session the rows added since the session opened.    *)
(* One request is handled at a time; its steps are the statements of       *)
(* trigger_scrape.  log records, for each answered request, the status,    *)
(* what caused it and the ScrapeResult held (NoResult when none).          *)
(***************************************************************************)
NoRows == [jobs |-> <<>>, products |-> <<>>, datasets |-> <<>>, images |-> <<>>]
NoReq == [use_sample |-> FALSE, url |-> ""]
\* Line 97: the URL recorded for the bundled sample (written in ASCII here).
SAMPLE_URL == "sample://local"

IdleApp == store = NoRows /\ session = NoRows /\ req = NoReq /\ result = NoResult /\ log = <<>>

\* Rows of table t tagged with the job they belong to.
RECURSIVE RowsFor(_, _)
RowsFor(job_id, items) ==
    IF items = <<>> THEN <<>>
    ELSE <<[job_id |-> job_id, row |-> Head(items)]>> \o RowsFor(job_id, Tail(items))

\* session.commit(): the pending rows join the tables.
Committed(st, pending) ==
    [jobs |-> st.jobs \o pending.jobs, products |-> st.products \o pending.products,
     datasets |-> st.datasets \o pending.datasets, images |-> st.images \o pending.images]

\* get_session's except branch: session.rollback() drops the pending rows.
RolledBackKeepsRows(st, pending) == Committed(st, pending)
RolledBack(st, pending) == st

\* The id the database gives the next scrape_jobs row.
NextJobId == Len(store.jobs) + 1

Answer(status, cause, res) ==
    /\ log' = Append(log, [status |-> status, cause |-> cause, result |-> res])
    /\ pc' = "idle"

\* Pages the fetched URL, or the bundled sample, may hold.
AppPages ==
    {Page("Title", <<Script("", "json", ParsedMap(Absent, Absent, ChartC))>>,
          <<Node({"[data-product]"}, "a", NoEl, <<"$", "1">>, <<>>, <<>>, NONE, "i1")>>,
          <<Img("i1", "alt", TRUE)>>),
     Page(NONE, <<>>,
          <<Node({"li.product"}, "a", NoEl, <<>>, <<>>, <<>>, NONE, NONE),
            Node({"li.product"}, NONE, NoEl, <<>>, <<>>, <<>>, "d", NONE)>>, <<>>),
     Page("Title", <<Script("", "invalid", ParsedAtom("null"))>>, <<>>,
          <<Img("i2", NONE, FALSE)>>),
     Page(NONE, <<Script("", "json", ParsedMap(Present(OtherValue), Absent, PlainMap))>>,
          <<>>, <<>>)}

\* Lines 92-101: read the form; an empty URL without the sample flag is a 400.
Receive ==
    /\ pc = "idle"
    /\ Len(log) < MaxRequests
    /\ \E use_sample \in BOOLEAN, raw_url \in {"", " ", "http://x"} :
          LET url == Strip(raw_url)
          IN  IF use_sample
              THEN /\ req' = [use_sample |-> TRUE, url |-> SAMPLE_URL]
                   /\ pc' = "scrape"
                   /\ UNCHANGED log
              ELSE IF url = ""
              THEN /\ req' = [use_sample |-> FALSE, url |-> url]
                   /\ Answer(400, "no_url", NoResult)
              ELSE /\ req' = [use_sample |-> FALSE, url |-> url]
                   /\ pc' = "scrape"
                   /\ UNCHANGED log
    /\ UNCHANGED <<store, session, result>>

\* Lines 103-108, the fetch failing: requests.RequestException answers 502.
ScrapeTransportError ==
    /\ pc = "scrape"
    /\ ~req.use_sample
    /\ Answer(502, "transport", NoResult)
    /\ UNCHANGED <<store, session, req, result>>

\* Lines 103-108 with markup in hand (fetched, or the sample): ScraperError
\* answers 400, any other exception leaves the handler (a 500), a
\* ScrapeResult opens the session.
ScrapeMarkup ==
    /\ pc = "scrape"
    /\ \E pg \in AppPages :
          LET o == scrape_page(req.url, pg)
          IN  IF o.kind = "returned"
              THEN /\ result' = o.result
                   /\ pc' = "add_job"
                   /\ UNCHANGED log
              ELSE IF o.exc = "ScraperError"
              THEN /\ Answer(400, "ScraperError", NoResult)
                   /\ UNCHANGED result
              ELSE /\ Answer(500, o.exc, NoResult)
                   /\ UNCHANGED result
    /\ UNCHANGED <<store, session, req>>

\* Lines 111-119: the job row is added and flushed, which gives it its id.
AddJob ==
    /\ pc = "add_job"
    /\ session' = [session EXCEPT !.jobs =
                      Append(@, [id |-> NextJobId, url |-> result.url, title |-> result.title,
                                 chart_title |-> result.chart_title,
                                 raw_payload |-> result.raw_payload])]
    /\ pc' = "add_children"
    /\ UNCHANGED <<store, req, result, log>>

\* Lines 121-154: one row per product, dataset and image, then flush.
AddChildren ==
    /\ pc = "add_children"
    /\ LET job_id == session.jobs[Len(session.jobs)].id
       IN  session' = [session EXCEPT
                          !.products = @ \o RowsFor(job_id, result.products),
                          !.datasets = @ \o RowsFor(job_id, result.datasets),
                          !.images = @ \o RowsFor(job_id, result.images)]
    /\ pc' = "commit"
    /\ UNCHANGED <<store, req, result, log>>

\* get_session after the body: session.commit(), then the 200 answer.
Commit ==
    /\ pc = "commit"
    /\ store' = Committed(store, session)
    /\ session' = NoRows
    /\ Answer(200, "ok", result)
    /\ result' = NoResult
    /\ UNCHANGED req

\* An exception while the session is open (a flush or the commit failing):
\* get_session rolls back and re-raises, the request ends in a 500.
PersistFails ==
    /\ pc \in {"add_job", "add_children", "commit"}
    /\ store' = RolledBack(store, session)
    /\ session' = NoRows
    /\ Answer(500, "db", NoResult)
    /\ result' = NoResult
    /\ UNCHANGED req

\* The concurrent calls of the last section, before any has started.
Calls == {1, 2}

NoLocals == [chart |-> NoChart, cands |-> <<>>, ci |-> 0, acc |-> NoAcc, images |-> <<>>]

IdleConc ==
    /\ cpage = [c \in Calls |-> EmptyPage]
    /\ curl = [c \in Calls |-> ""]
    /\ cpc = [c \in Calls |-> "idle"]
    /\ cloc = [c \in Calls |-> NoLocals]
    /\ cout = [c \in Calls |-> NoOutcome]

InitApp ==
    /\ pc = "idle"
    /\ IdleApp
    /\ IdlePrice /\ IdleNorm /\ IdleChart /\ IdleProducts /\ IdleScrape /\ IdleConc

NextApp ==
    /\ \/ Receive
       \/ ScrapeTransportError
       \/ ScrapeMarkup
       \/ AddJob
       \/ AddChildren
       \/ Commit
       \/ PersistFails
    /\ UNCHANGED <<priceVars, normVars, chartVars, prodVars, scrapeVars, concVars>>

SpecApp == InitApp /\ [][NextApp]_vars

(***************************************************************************)
(* Two calls of scrape over supplied markup, their steps interleaved.      *)
(*                                                                         *)
(* Each call owns its locals (cloc): the chart found, the candidates, the  *)
(* loop position ci, and products / seen_names of extract_products.        *)
(***************************************************************************)
\* seen_names as call c reads it: the set created by its own call of
\* extract_products (line 148).
SeenNamesShared(c) == UNION {cloc[d].acc.seen_names : d \in Calls}
SeenNames(c) == cloc[c].acc.seen_names

\* Line 207: extract_chart_data, which touches only its own locals.
StepChart(c) ==
    /\ cpc[c] = "chart"
    /\ LET ch == extract_chart_data(cpage[c].scripts)
       IN  IF ch.exc # NONE
           THEN /\ cout' = [cout EXCEPT ![c] = Raised(ch.exc)]
                /\ cpc' = [cpc EXCEPT ![c] = "raised"]
                /\ UNCHANGED cloc
           ELSE /\ cloc' = [cloc EXCEPT ![c].chart = ch]
                /\ cpc' = [cpc EXCEPT ![c] = "select"]
                /\ UNCHANGED cout
    /\ UNCHANGED <<cpage, curl>>

\* Lines 146-149: fresh products and seen_names, and the candidates.
StepSelect(c) ==
    /\ cpc[c] = "select"
    /\ cloc' = [cloc EXCEPT ![c].cands = Select(cpage[c].nodes), ![c].ci = 0, ![c].acc = NoAcc]
    /\ cpc' = [cpc EXCEPT ![c] = "products"]
    /\ UNCHANGED <<cpage, curl, cout>>

\* Lines 149-182: one iteration of the loop over the candidates.
StepProduct(c) ==
    /\ cpc[c] = "products"
    /\ cloc[c].ci < Len(cloc[c].cands)
    /\ LET acc == [cloc[c].acc EXCEPT !.seen_names = SeenNames(c)]
       IN  cloc' = [cloc EXCEPT
                       ![c].acc = ProductStep(acc, cpage[c].nodes, cloc[c].cands[cloc[c].ci + 1]),
                       ![c].ci = @ + 1]
    /\ UNCHANGED <<cpage, curl, cpc, cout>>

\* Line 209: extract_images, once the product loop has ended.
StepImages(c) ==
    /\ cpc[c] = "products"
    /\ cloc[c].ci = Len(cloc[c].cands)
    /\ cloc' = [cloc EXCEPT ![c].images = extract_images(cpage[c].imgs)]
    /\ cpc' = [cpc EXCEPT ![c] = "check"]
    /\ UNCHANGED <<cpage, curl, cout>>

\* Lines 211-223: the emptiness check and the result.
StepFinish(c) ==
    /\ cpc[c] = "check"
    /\ LET l == cloc[c]
       IN  IF l.chart.datasets = <<>> /\ l.acc.products = <<>>
           THEN /\ cout' = [cout EXCEPT ![c] = Raised("ScraperError")]
                /\ cpc' = [cpc EXCEPT ![c] = "raised"]
           ELSE /\ cout' = [cout EXCEPT ![c] =
                               [kind |-> "returned", exc |-> NONE,
                                result |-> [url |-> curl[c], title |-> cpage[c].title,
                                            chart_title |-> l.chart.title,
                                            datasets |-> l.chart.datasets,
                                            products |-> l.acc.products,
                                            images |-> l.images,
                                            raw_payload |-> l.chart.raw]]]
                /\ cpc' = [cpc EXCEPT ![c] = "done"]
    /\ UNCHANGED <<cpage, curl, cloc>>

ConcScripts ==
    {<<>>, <<Script("", "json", ParsedMap(Absent, Absent, ChartC))>>,
     <<Script("", "json", ParsedMap(Absent, Absent, ChartBadEntry))>>}
ConcNodes ==
    {Node({"[data-product]"}, n, NoEl, <<"$", "1">>, <<>>, <<>>, NONE, NONE) : n \in {"a", NONE}}
ConcPages ==
    {Page(NONE, ss, ns, <<>>) : ss \in ConcScripts, ns \in SeqsUpTo(ConcNodes, MaxNodes)}

InitConc ==
    /\ pc = "call"
    /\ cpage \in [Calls -> ConcPages]
    /\ curl \in {[c \in Calls |-> "u1"], [c \in Calls |-> IF c = 1 THEN "u1" ELSE "u2"]}
    /\ cpc = [c \in Calls |-> "chart"]
    /\ cloc = [c \in Calls |-> NoLocals]
    /\ cout = [c \in Calls |-> NoOutcome]
    /\ IdlePrice /\ IdleNorm /\ IdleChart /\ IdleProducts /\ IdleScrape /\ IdleApp

NextConc ==
    /\ \E c \in Calls :
          \/ StepChart(c)
          \/ StepSelect(c)
          \/ StepProduct(c)
          \/ StepImages(c)
          \/ StepFinish(c)
    /\ UNCHANGED <<pc, priceVars, normVars, chartVars, prodVars, scrapeVars, appVars>>

SpecConc == InitConc /\ [][NextConc]_vars


(***************************************************************************)
(* The calls, one specification per function.                              *)
(***************************************************************************)
DoParsePrice ==
    /\ pc = "call"
    /\ price' = parse_price(text)
    /\ pc' = "done"
    /\ UNCHANGED <<text, normVars, chartVars, prodVars, scrapeVars, appVars, concVars>>

InitPrice ==
    /\ pc = "call" /\ text \in PriceTexts /\ price = NoPrice
    /\ IdleNorm /\ IdleChart /\ IdleProducts /\ IdleScrape /\ IdleApp /\ IdleConc

SpecPrice == InitPrice /\ [][DoParsePrice]_vars

DoNormalise ==
    /\ pc = "call"
    /\ norm' = normalise_chart(payload)
    /\ pc' = IF norm'.exc = NONE THEN "done" ELSE "raised"
    /\ UNCHANGED <<payload, priceVars, chartVars, prodVars, scrapeVars, appVars, concVars>>

InitNormalise ==
    /\ pc = "call" /\ payload \in NormPayloads /\ norm = NoNorm
    /\ IdlePrice /\ IdleChart /\ IdleProducts /\ IdleScrape /\ IdleApp /\ IdleConc

SpecNormalise == InitNormalise /\ [][DoNormalise]_vars

InitChart ==
    /\ pc = "call" /\ scripts \in ScriptLists /\ si = 0
    /\ chart_payload = NullValue /\ chart = NoChart
    /\ IdlePrice /\ IdleNorm /\ IdleProducts /\ IdleScrape /\ IdleApp /\ IdleConc

NextChart ==
    \/ ScanScript /\ UNCHANGED <<priceVars, normVars, prodVars, scrapeVars, appVars, concVars>>
    \/ ReturnNoChart /\ UNCHANGED <<priceVars, normVars, prodVars, scrapeVars, appVars, concVars>>

SpecChart == InitChart /\ [][NextChart]_vars

DoExtractProducts ==
    /\ pc = "call"
    /\ cards' = extract_products(nodes)
    /\ pc' = "done"
    /\ UNCHANGED <<nodes, priceVars, normVars, chartVars, scrapeVars, appVars, concVars>>

InitProducts ==
    /\ pc = "call" /\ nodes \in NodeLists /\ cards = NoAcc
    /\ IdlePrice /\ IdleNorm /\ IdleChart /\ IdleScrape /\ IdleApp /\ IdleConc

SpecProducts == InitProducts /\ [][DoExtractProducts]_vars

\* scrape(url, html_override) with markup supplied.
DoScrape ==
    /\ pc = "call"
    /\ outcome' = scrape_page("u", page)
    /\ pc' = IF outcome'.kind = "returned" THEN "done" ELSE "raised"
    /\ UNCHANGED <<page, priceVars, normVars, chartVars, prodVars, appVars, concVars>>

InitScrape ==
    /\ pc = "call" /\ page \in Pages /\ outcome = NoOutcome
    /\ IdlePrice /\ IdleNorm /\ IdleChart /\ IdleProducts /\ IdleApp /\ IdleConc

SpecScrape == InitScrape /\ [][DoScrape]_vars

(***************************************************************************)
(* Properties                                                              *)
(***************************************************************************)

\* ---- parse_price ----
CurrencyTokens == {<<s>> : s \in CurrencySymbols} \cup CurrencyCodes
TokenText(tok) == IF Len(tok) = 1 THEN tok[1] ELSE tok[1] \o tok[2] \o tok[3]

\* Where the numeric run starts when token tok stands at position i of t
\* (one whitespace character may separate them); 0 when none follows.
RunStartAfter(t, i, tok) ==
    LET j == i + Len(tok)
    IN  IF i + Len(tok) - 1 > Len(t) \/ SubSeq(t, i, i + Len(tok) - 1) # tok THEN 0
        ELSE IF j <= Len(t) /\ t[j] \in ValueChars THEN j
        ELSE IF j + 1 <= Len(t) /\ t[j] \in Whitespace /\ t[j + 1] \in ValueChars THEN j + 1
        ELSE 0

Occurrences(t) ==
    {o \in (1..Len(t)) \X CurrencyTokens : RunStartAfter(t, o[1], o[2]) # 0}

FirstOccurrence(t) ==
    CHOOSE o \in Occurrences(t) : \A q \in Occurrences(t) : o[1] <= q[1]

\* The maximal run of digits, '.' and ',' from s on.
RunFrom(t, s) ==
    LET e == CHOOSE k \in s..Len(t) :
                 /\ \A m \in s..k : t[m] \in ValueChars
                 /\ (k = Len(t) \/ t[k + 1] \notin ValueChars)
    IN  SubSeq(t, s, e)

\* Every '.' removed, then every ',' written '.'.
DotsOutCommasToDots(run) ==
    LET kept == SelectSeq(run, LAMBDA c : c # ".")
    IN  [i \in 1..Len(kept) |-> IF kept[i] = "," THEN "." ELSE kept[i]]

LiraExample == <<"TL", "1", ".", "2", "3", "4", ",", "5", "6">>
NoDigitsExample == <<"n", "o", " ", "d", "i", "g", "i", "t", "s">>

\* C6: parse_price returns (absent, absent) when no currency token followed
\* by a numeric run occurs; otherwise the currency is the token of the
\* leftmost occurrence and the amount is its run with every '.' removed and
\* every ',' turned into '.', or absent when that is no number; a present
\* amount always comes with a present currency.
C6_ParsePrice ==
    pc = "done" =>
        /\ IF Occurrences(text) = {} THEN price = [amount |-> NoAmount, currency |-> NONE]
           ELSE LET o   == FirstOccurrence(text)
                    run == RunFrom(text, RunStartAfter(text, o[1], o[2]))
                    f   == PyFloat(DotsOutCommasToDots(run))
                IN  /\ price.currency = TokenText(o[2])
                    /\ price.amount = IF f.ok THEN f.val ELSE NoAmount
        /\ (price.amount # NoAmount => price.currency # NONE)
        /\ (text = LiraExample =>
                price = [amount |-> [mant |-> 123456, exp |-> 2], currency |-> "TL"])
        /\ (text = NoDigitsExample => price = [amount |-> NoAmount, currency |-> NONE])

C6_Witness ==
    /\ pc = "done"
    /\ text = LiraExample
    /\ price = [amount |-> [mant |-> 123456, exp |-> 2], currency |-> "TL"]

\* ---- normalise_chart ----
SeriesSource(p) == FieldOr(FieldOr(p.datasets, p.series), ListField(<<>>))
RawPoints(e) == FieldOr(FieldOr(e.data, e.values), ListField(<<>>))
Coercible(pt) == pt.k \in {"num", "numstr"}
AllCoerce(e) ==
    /\ e.k = "map"
    /\ RawPoints(e).k = "list"
    /\ \A i \in 1..Len(RawPoints(e).items) : Coercible(RawPoints(e).items[i])

RECURSIVE ExpectedDatasets(_, _)
ExpectedDatasets(entries, labels) ==
    IF entries = <<>> THEN <<>>
    ELSE (IF AllCoerce(Head(entries))
          THEN << [values |-> [i \in 1..Len(RawPoints(Head(entries)).items) |->
                                   RawPoints(Head(entries)).items[i].n],
                   labels |-> labels] >>
          ELSE <<>>) \o ExpectedDatasets(Tail(entries), labels)

ValuesAndLabels(ds) ==
    [i \in 1..Len(ds) |-> [values |-> ds[i].values, labels |-> ds[i].labels]]

\* C4: normalise_chart treats each series entry on its own: the datasets it
\* returns are, in the entries' order, exactly one per entry whose N points
\* all coerce (with those N values in order and the chart's labels), and none
\* for any other entry.
C4_SeriesIndependent ==
    (pc # "call" /\ SeriesSource(payload).k = "list") =>
        ValuesAndLabels(norm.datasets)
            = ExpectedDatasets(SeriesSource(payload).items, payload.labels)

\* ---- extract_chart_data ----
\* The three shapes tested one after the other: "chart", then a "data"
\* mapping with labels and datasets, then the mapping itself.
ChartPayloadByPriority(parsed) ==
    IF parsed.k # "map" THEN NullValue
    ELSE IF parsed.chart.has THEN parsed.chart.v
    ELSE IF parsed.data.has /\ IsDict(parsed.data.v) /\ HasLabelsAndDatasets(parsed.data.v)
         THEN parsed.data.v
    ELSE IF HasLabelsAndDatasets(parsed.self) THEN parsed.self
    ELSE NullValue

\* C2: for the mapping parsed from the script node just visited, the chart
\* payload is picked in strict priority order (a) "chart", (b) "data" holding
\* labels and datasets, (c) the mapping itself holding labels and datasets.
C2_ShapePriority ==
    (si >= 1 /\ ReachesShapeTest(scripts[si]) /\ try_parse_json(scripts[si].body).k = "map") =>
        chart_payload = ChartPayloadByPriority(try_parse_json(scripts[si].body))

\* A node whose payload normalises to at least one dataset.
Qualifies(script) ==
    /\ ReachesShapeTest(script)
    /\ LET cp == ChartPayload(try_parse_json(script.body))
       IN  /\ ValueTruthy(cp)
           /\ normalise_chart(cp).exc = NONE
           /\ normalise_chart(cp).datasets # <<>>

\* C3: extract_chart_data returns the title, datasets and raw JSON of the
\* first script node, in document order, whose payload normalises to at
\* least one dataset, and stops there; no other node prevents that; with no
\* such node it returns (absent, empty, absent).
C3_FirstQualifyingNode ==
    pc \in {"done", "raised"} =>
        IF \E i \in 1..Len(scripts) : Qualifies(scripts[i])
        THEN LET f  == CHOOSE i \in 1..Len(scripts) :
                         Qualifies(scripts[i]) /\ \A j \in 1..(i - 1) : ~Qualifies(scripts[j])
                 cp == ChartPayload(try_parse_json(scripts[f].body))
             IN  /\ pc = "done"
                 /\ si = f
                 /\ chart = [exc |-> NONE, title |-> normalise_chart(cp).title,
                             datasets |-> normalise_chart(cp).datasets, raw |-> JsonDumps(cp)]
        ELSE pc = "done" /\ chart = NoChart

\* ---- extract_products ----
Candidates == Select(nodes)

\* The positions, among the candidates, of those not dropped: a candidate is
\* dropped when its name is non-empty and an earlier candidate has it.
KeptPositions ==
    {k \in 1..Len(Candidates) :
        ~(/\ Truthy(ProductName(nodes[Candidates[k]]))
          /\ \E j \in 1..(k - 1) :
                ProductName(nodes[Candidates[j]]) = ProductName(nodes[Candidates[k]]))}

ExpectedFrom ==
    LET kept == SelectSeq([k \in 1..Len(Candidates) |-> k], LAMBDA k : k \in KeptPositions)
    IN  [m \in 1..Len(kept) |-> Candidates[kept[m]]]

\* C5: extract_products emits exactly the candidates, in visiting order,
\* except those whose non-empty name an earlier candidate has: each emitted
\* card is its own candidate's card, no two emitted cards share a non-empty
\* name, and every candidate without a name is emitted.
C5_DedupByName ==
    pc = "done" =>
        /\ cards.from = ExpectedFrom
        /\ Len(cards.products) = Len(cards.from)
        /\ \A m \in 1..Len(cards.products) :
              /\ cards.products[m].name = ProductName(nodes[cards.from[m]])
              /\ cards.products[m].description = nodes[cards.from[m]].desc
              /\ cards.products[m].image_url = nodes[cards.from[m]].img
              /\ cards.products[m] = CardOf(nodes[cards.from[m]])
        /\ \A m, n \in 1..Len(cards.products) :
              (m # n /\ Truthy(cards.products[m].name))
                  => cards.products[m].name # cards.products[n].name
        /\ \A k \in 1..Len(Candidates) :
              ~Truthy(ProductName(nodes[Candidates[k]]))
                  => \E m \in 1..Len(cards.from) : cards.from[m] = Candidates[k]

C5_Witness ==
    /\ pc = "done"
    /\ Len(Candidates) = 2
    /\ ProductName(nodes[Candidates[1]]) = "a"
    /\ ProductName(nodes[Candidates[2]]) = "a"
    /\ CardOf(nodes[Candidates[1]]) # CardOf(nodes[Candidates[2]])
    /\ cards.products = <<CardOf(nodes[Candidates[1]])>>

\* The first selector of the list a node matches.
SelectorRank(node) ==
    CHOOSE r \in 1..Len(product_selectors) :
        /\ product_selectors[r] \in node.sel
        /\ \A q \in 1..(r - 1) : product_selectors[q] \notin node.sel

\* C8 as stated: cards of candidates matched by an earlier selector precede
\* cards of candidates matched by a later selector; within one selector they
\* are in document order.
C8_SelectorOrder ==
    pc = "done" =>
        \A m, n \in 1..Len(cards.from) :
            m < n =>
                \/ SelectorRank(nodes[cards.from[m]]) < SelectorRank(nodes[cards.from[n]])
                \/ /\ SelectorRank(nodes[cards.from[m]]) = SelectorRank(nodes[cards.from[n]])
                   /\ cards.from[m] < cards.from[n]

\* C8 amended: the cards are in document order whichever selector matched
\* their nodes; every card comes from a node matching a selector, and a node
\* matching several selectors is a candidate once.
C8_DocumentOrder ==
    pc = "done" =>
        /\ \A m, n \in 1..Len(cards.from) : m < n => cards.from[m] < cards.from[n]
        /\ \A m \in 1..Len(cards.from) : nodes[cards.from[m]].sel # {}
        /\ \A i \in 1..Len(nodes) :
              Cardinality({k \in 1..Len(Candidates) : Candidates[k] = i})
                  = IF nodes[i].sel # {} THEN 1 ELSE 0

C8_Witness ==
    /\ pc = "done"
    /\ Len(nodes) = 2
    /\ nodes[1].sel = {"li.product"}
    /\ nodes[2].sel = {"[data-product]"}
    /\ cards.from = <<1, 2>>

\* ---- scrape ----
ChartYield(pg) ==
    LET c == extract_chart_data(pg.scripts)
    IN  IF c.exc = NONE THEN c.datasets ELSE <<>>

\* C1: with markup supplied, scrape raises ScraperError exactly when chart
\* extraction yields no dataset and product extraction no card, and returns
\* a ScrapeResult otherwise; a returned result holds a dataset or a product.
C1_EmptyIffScraperError ==
    pc # "call" =>
        /\ outcome.exc = "ScraperError"
              <=> (ChartYield(page) = <<>> /\ extract_products(page.nodes).products = <<>>)
        /\ (outcome.exc # "ScraperError" => outcome.kind = "returned")
        /\ (outcome.kind = "returned"
              => (outcome.result.datasets # <<>> \/ outcome.result.products # <<>>))

\* C7: with markup supplied, every call to scrape ends with a ScrapeResult or
\* with ScraperError, never with another exception.
C7_OnlyTwoOutcomes ==
    pc # "call" => (outcome.kind = "returned" \/ outcome.exc = "ScraperError")
\* ---- POST /scrape ----
OkAnswers == SelectSeq(log, LAMBDA a : a.status = 200)
RowsOf(table, job_id) == SelectSeq(table, LAMBDA r : r.job_id = job_id)

\* C9: the tables change only with a successful extraction: a transport
\* error answers 502, ScraperError or a missing URL answers 400, and none of
\* them adds a row; each 200 answer added exactly one job with one row per
\* product, dataset and image of its result, all or nothing; every stored
\* job owns a dataset or a product.
C9_StoreOnlyOnSuccess ==
    /\ Len(store.jobs) = Len(OkAnswers)
    /\ \A k \in 1..Len(store.jobs) :
          /\ store.jobs[k].id = k
          /\ store.jobs[k].url = OkAnswers[k].result.url
          /\ RowsOf(store.products, k) = RowsFor(k, OkAnswers[k].result.products)
          /\ RowsOf(store.datasets, k) = RowsFor(k, OkAnswers[k].result.datasets)
          /\ RowsOf(store.images, k) = RowsFor(k, OkAnswers[k].result.images)
          /\ (RowsOf(store.products, k) # <<>> \/ RowsOf(store.datasets, k) # <<>>)
    /\ \A t \in {store.products, store.datasets, store.images} :
          \A i \in 1..Len(t) : t[i].job_id \in 1..Len(store.jobs)
    /\ \A i \in 1..Len(log) :
          /\ log[i].cause = "transport" => log[i].status = 502
          /\ log[i].cause \in {"ScraperError", "no_url"} => log[i].status = 400
          /\ log[i].status = 200 <=> log[i].cause = "ok"

C9_Witness ==
    /\ Len(log) = 2
    /\ log[1].cause = "db"
    /\ log[2].status = 200
    /\ Len(store.jobs) = 1
    /\ store.products # <<>>
    /\ store.datasets # <<>>
    /\ store.images # <<>>

\* ---- concurrent calls ----
\* C10: each of two interleaved scrape calls ends as it does when run alone
\* (a name seen by one call never drops a card of the other), and two calls
\* on the same markup and URL end alike.
C10_CallsIndependent ==
    /\ \A c \in Calls :
          cpc[c] \in {"done", "raised"} => cout[c] = scrape_page(curl[c], cpage[c])
    /\ ((\A c \in Calls : cpc[c] \in {"done", "raised"}) /\ cpage[1] = cpage[2]
            /\ curl[1] = curl[2])
          => cout[1] = cout[2]

C10_Witness ==
    /\ cpc[1] = "products" /\ cloc[1].ci = 1 /\ Len(cloc[1].cands) = 2
    /\ cloc[1].acc.seen_names = {"a"}
    /\ cpc[2] = "done"
    /\ \E m \in 1..Len(cout[2].result.products) : cout[2].result.products[m].name = "a"

====
